---- MODULE Spec2Model ----
(***************************************************************************)
(* Model of the repository:                                                *)
(*   src/backend/app/llm_user.py  call_llm and the CLI loop (__main__)     *)
(*   src/backend/app/not_main.py  insights, chat_user, make_predictions    *)
(*   src/scripts/preprocess.py    create_bucket_if_not_exists and          *)
(*                                upload_multiple_csvs_to_gcs              *)
(*                                                                         *)
(* A text is a sequence of tokens (strings), so that the empty text is     *)
(* << >> and concatenation is \o.  A ConversationBufferMemory is an object *)
(* of the heap: callers and call_llm hold references to it, and its        *)
(* content is the list chat_memory.messages.                               *)
(***************************************************************************)
EXTENDS Integers, Sequences, FiniteSets, TLC

(* ------------------------------ bounds --------------------------------- *)

\* Calls of call_llm (CLI) or requests (web) started in one behaviour.
MaxCalls == 3

\* Longest history a caller hands to a single call_llm in SpecCall.
MaxHist == 2

(* ----------------------------- processes ------------------------------- *)

\* Two CLI sessions: two runs of llm_user.py, each with its own memory.
Clis == {1, 2}

\* Two threads of the web server, each serving one request at a time.
Workers == {3, 4}

Procs == Clis \cup Workers

(* ------------------------------- texts --------------------------------- *)

\* What a user may type at input(): the empty line or some text.
CliTexts == { << >>, <<"a">>, <<"b">> }

\* The line that ends the CLI loop.
Bye == <<"/bye">>

\* The final answers the completion service may return.
Replies == { <<"r1">>, <<"r2">> }

\* The rows the high-frequency lookup may return (select comercio).
FreqData == { <<"oxxo">> }

\* The rows the high-stakes lookup may return (select comercio, fecha).
StakesData == { <<"oxxo", "2022-01-01">> }

\* JSON bodies of a POST to /chat/user/<client_id>: with a content, and
\* without the key.
Bodies == { [content |-> <<"hola">>], [text |-> <<"hola">>] }

\* The outcome of a lookup that raised.
Failed == <<"raised">>

\* A local that has not been assigned yet.
None == <<"None">>

\* The static role description of the system message.
SystemText == <<"You are a chatbot having a conversation with a client of bank">>

(* ------------------------------ messages ------------------------------- *)

\* sid is bookkeeping of the model, absent from the code: the process whose
\* call produced the message (0 for the fixed system message).
SystemMessage == [type |-> "system", content |-> SystemText, sid |-> 0]

HumanMessage(c, p) == [type |-> "human", content |-> c, sid |-> p]

AIMessage(c, p) == [type |-> "ai", content |-> c, sid |-> p]

VARIABLES
  pc,          \* position of each process
  input1,      \* CLI: the line read last
  memory,      \* the caller's variable `memory`: a reference into heap
  heap,        \* object id -> chat_memory.messages of that memory object
  frame,       \* call_llm's locals: user_input, memory (reference), response
  outbound,    \* the message sequence handed to the completion service last
  snapshot,    \* bookkeeping: content of the passed memory when the call began
  log,         \* bookkeeping: the turns each process completed, in order
  dispatched,  \* bookkeeping: dispatches made by the current call
  calls,       \* bookkeeping: calls started so far (bounded by MaxCalls)
  route,       \* web: the handler the request in progress was routed to
  body,        \* web: the JSON body of the request in progress
  d1,          \* web: the handler's dictionary d1
  lookups,     \* bookkeeping: lookup attempted -> its rows, or Failed
  http         \* web: the response sent last

webvars == << route, body, d1, lookups, http >>

\* The state of the chat flow but the bound on calls.
chatvars == << pc, input1, memory, heap, frame, outbound, snapshot, log,
               dispatched, route, body, d1, lookups, http >>

\* State of make_predictions (not_main.py).
VARIABLES
  mp_pc,        \* position of the handler
  data,         \* the parsed JSON body (request.get_json())
  local_input,  \* content of the file LOCAL_INPUT: a sequence of CSV rows
  google_input, \* content of the copy under GOOGLE_INPUT
  jobs,         \* batch prediction jobs the platform accepted
  steps         \* bookkeeping: what the request in progress did, in order

predictvars == << mp_pc, data, local_input, google_input, jobs, steps >>

\* State of scripts/preprocess.py: create_bucket_if_not_exists, then
\* upload_multiple_csvs_to_gcs.
VARIABLES
  sc_pc,           \* position of the script
  bucket_exists,   \* cloud: a bucket of that name exists
  blobs,           \* cloud: the blob names uploaded into the bucket
  cb_result,       \* what create_bucket_if_not_exists returned, or "raised"
  folder,          \* the file names of the local folder, in directory order
  gcs_folder_prefix, \* parameter of upload_multiple_csvs_to_gcs
  csv_files,       \* list(local_path.glob("*.csv"))
  idx,             \* position of the for loop in csv_files
  uploaded_files,  \* the list the function builds and returns
  um_result,       \* "none", "returned" or "raised"
  existed,         \* bookkeeping: the bucket existed when the script began
  cb_steps,        \* bookkeeping: outcomes of reload and create_bucket
  attempts         \* bookkeeping: << file name, upload succeeded >> in order

scriptvars == << sc_pc, bucket_exists, blobs, cb_result, folder,
                 gcs_folder_prefix, csv_files, idx, uploaded_files, um_result,
                 existed, cb_steps, attempts >>

\* The state of the operations outside the chat flow.
jobvars == << predictvars, scriptvars >>

vars == << pc, input1, memory, heap, frame, outbound, snapshot, log,
           dispatched, calls, route, body, d1, lookups, http, jobvars >>

(* ------------------------- call_llm, in parts -------------------------- *)

\* ChatPromptTemplate.from_messages([...]) formatted with chat_history and
\* human_input: system message, the placeholder's messages, the human turn.
FormatMessagesNoHistory(chat_history, human_input, p) ==
  << SystemMessage, HumanMessage(human_input, p) >>

FormatMessages(chat_history, human_input, p) ==
  << SystemMessage >> \o chat_history \o << HumanMessage(human_input, p) >>

\* memory.save_context({"input": i}, {"output": o}): the buffer gains a human
\* message and an AI message, in that order.
SaveContextWithSystem(buffer, i, o, p) ==
  buffer \o << SystemMessage, HumanMessage(i, p), AIMessage(o, p) >>

SaveContextNothing(buffer, i, o, p) == buffer

SaveContext(buffer, i, o, p) ==
  buffer \o << HumanMessage(i, p), AIMessage(o, p) >>

\* The memory object the chain and line 44 write to: the one passed in
\* (LLMChain(memory=memory), memory.save_context).
SaveTargetShared(p) == 1

SaveTarget(p) == frame[p].memory

\* The buffer after a dispatch that raised: Chain.invoke re-raises before
\* prep_outputs, and line 44 is not reached.
FailedBufferKeepsInput(buffer, i, p) == buffer \o << HumanMessage(i, p) >>

FailedBuffer(buffer, i, p) == buffer

\* Where call_llm goes when the dispatch raised: no except clause, no loop.
AfterFailureRetry == "predict"

AfterFailure == "raised"

\* Line 42, first half: the chain loads chat_history from its memory, formats
\* the prompt and hands the sequence to the completion service.
Dispatch(p) ==
  /\ pc[p] = "predict"
  /\ outbound' = [outbound EXCEPT ![p] =
                    FormatMessages(heap[frame[p].memory], frame[p].user_input, p)]
  /\ dispatched' = [dispatched EXCEPT ![p] = @ + 1]
  /\ pc' = [pc EXCEPT ![p] = "await"]
  /\ UNCHANGED << input1, memory, heap, frame, snapshot, log, calls, webvars >>
  /\ UNCHANGED jobvars

\* Line 42, second half: the service answers; the chain saves the exchange in
\* its memory (Chain.prep_outputs) and predict returns the text.
Reply(p) ==
  /\ pc[p] = "await"
  /\ \E r \in Replies :
       /\ heap' = [heap EXCEPT ![SaveTarget(p)] =
                     SaveContext(@, frame[p].user_input, r, p)]
       /\ frame' = [frame EXCEPT ![p].response = r]
  /\ pc' = [pc EXCEPT ![p] = "save"]
  /\ UNCHANGED << input1, memory, outbound, snapshot, log, dispatched, calls,
                  webvars >>
  /\ UNCHANGED jobvars

\* Line 42: the service cannot be reached or answers with an error; the
\* exception leaves chain.predict and call_llm.
DispatchFail(p) ==
  /\ pc[p] = "await"
  /\ heap' = [heap EXCEPT ![SaveTarget(p)] =
                FailedBuffer(@, frame[p].user_input, p)]
  /\ pc' = [pc EXCEPT ![p] = AfterFailure]
  /\ UNCHANGED << input1, memory, frame, outbound, snapshot, log,
                  dispatched, calls, webvars >>
  /\ UNCHANGED jobvars

\* Lines 44-46: memory.save_context, then return response, memory.
Save(p) ==
  /\ pc[p] = "save"
  /\ heap' = [heap EXCEPT ![SaveTarget(p)] =
                SaveContext(@, frame[p].user_input, frame[p].response, p)]
  /\ log' = [log EXCEPT ![p] =
               Append(@, << frame[p].user_input, frame[p].response >>)]
  /\ pc' = [pc EXCEPT ![p] = "returned"]
  /\ UNCHANGED << input1, memory, frame, outbound, snapshot, dispatched, calls,
                  webvars >>
  /\ UNCHANGED jobvars

\* Line 46: the memory call_llm returns is its parameter.
ReturnedMemory(p) == frame[p].memory

(* ------------------------ the CLI loop (__main__) ---------------------- *)

\* The frame of a call of call_llm(user_input, memory) at its entry.
NewFrame(u, m) == [user_input |-> u, memory |-> m, response |-> None]

\* Lines 54/58 and 55-56, 14-40: read a line; "/bye" ends the loop, any other
\* line (the empty one included) enters call_llm, which builds the prompt,
\* the model and the chain.
CliInput(p) ==
  /\ p \in Clis
  /\ pc[p] = "input"
  /\ \E line \in CliTexts \cup {Bye} :
       /\ input1' = [input1 EXCEPT ![p] = line]
       /\ IF line = Bye
            THEN /\ pc' = [pc EXCEPT ![p] = "done"]
                 /\ UNCHANGED << frame, snapshot, dispatched, calls >>
            ELSE /\ calls < MaxCalls
                 /\ pc' = [pc EXCEPT ![p] = "predict"]
                 /\ frame' = [frame EXCEPT ![p] = NewFrame(line, memory[p])]
                 /\ snapshot' = [snapshot EXCEPT ![p] = heap[memory[p]]]
                 /\ dispatched' = [dispatched EXCEPT ![p] = 0]
                 /\ calls' = calls + 1
  /\ UNCHANGED << memory, heap, outbound, log, webvars >>
  /\ UNCHANGED jobvars

\* Lines 56-57: response, memory = call_llm(...); print(response); back to
\* line 58.
CliReturn(p) ==
  /\ p \in Clis
  /\ pc[p] = "returned"
  /\ memory' = [memory EXCEPT ![p] = ReturnedMemory(p)]
  /\ pc' = [pc EXCEPT ![p] = "input"]
  /\ UNCHANGED << input1, heap, frame, outbound, snapshot, log,
                  dispatched, calls, webvars >>
  /\ UNCHANGED jobvars

(* ------------------- the web handlers (not_main.py) -------------------- *)

KeyFreq == "Frecuencias altas"

KeyStakes == "Movimientos grandes"

EmptyDict == [k \in {} |-> << >>]

\* No response sent yet.
NoResponse == [status |-> 0, payload |-> None]

\* d[k] = v of a Python dict.
DictSet(d, k, v) == [x \in DOMAIN d \cup {k} |-> IF x = k THEN v ELSE d[x]]

\* str(d1) inside the f-string of line 115: the keys in insertion order, each
\* with its rows.
Repr(d) ==
  <<"{">>
  \o (IF KeyFreq \in DOMAIN d THEN << KeyFreq >> \o d[KeyFreq] ELSE << >>)
  \o (IF KeyStakes \in DOMAIN d THEN << KeyStakes >> \o d[KeyStakes] ELSE << >>)
  \o <<"}">>

\* Line 115: user_input['content'] + f'Predicciones a futuro: {d1}'.
ChatUserInput(b, d) == b.content \o <<"Predicciones a futuro: ">> \o Repr(d)

\* ConversationBufferMemory(...) at line 113 makes a new object: the smallest
\* object id not in use.
NewObjReused(h) == 1

NewObj(h) ==
  CHOOSE o \in 1..(Cardinality(DOMAIN h) + 1) :
    /\ o \notin DOMAIN h
    /\ \A q \in 1..(o - 1) : q \in DOMAIN h

\* The heap without the objects no variable refers to any more.
Release(h, o) == [x \in DOMAIN h \ {o} |-> h[x]]

\* Where a handler goes when a lookup raised: `except: pass` falls through
\* to the statement after the try.
LookupRaisedPropagates(next) == "raised"

LookupRaised(next) == next

\* A request arrives and is routed (a GET of /insights/<client_id> or a POST
\* of /chat/user/<client_id>); the handler starts with d1 = {} (lines 81-82,
\* 99-100). The bookkeeping of the worker's previous request is dropped.
WebRequest(w) ==
  /\ w \in Workers
  /\ pc[w] = "idle"
  /\ calls < MaxCalls
  /\ \/ /\ route' = [route EXCEPT ![w] = "insights"]
        /\ body' = [body EXCEPT ![w] = EmptyDict]
     \/ \E b \in Bodies :
          /\ route' = [route EXCEPT ![w] = "chat_user"]
          /\ body' = [body EXCEPT ![w] = b]
  /\ d1' = [d1 EXCEPT ![w] = EmptyDict]
  /\ lookups' = [lookups EXCEPT ![w] = EmptyDict]
  /\ http' = [http EXCEPT ![w] = NoResponse]
  /\ dispatched' = [dispatched EXCEPT ![w] = 0]
  /\ calls' = calls + 1
  /\ outbound' = [outbound EXCEPT ![w] = << >>]
  /\ log' = [log EXCEPT ![w] = << >>]
  /\ pc' = [pc EXCEPT ![w] = "high_frec"]
  /\ UNCHANGED << input1, memory, heap, frame, snapshot >>
  /\ UNCHANGED jobvars

\* Lines 83-87 and 101-105: the high-frequency lookup inside try/except.
LookupHighFreq(w) ==
  /\ w \in Workers
  /\ pc[w] = "high_frec"
  /\ \/ \E rows \in FreqData :
          /\ d1' = [d1 EXCEPT ![w] = DictSet(@, KeyFreq, rows)]
          /\ lookups' = [lookups EXCEPT ![w] = DictSet(@, KeyFreq, rows)]
          /\ pc' = [pc EXCEPT ![w] = "high_stakes"]
     \/ /\ lookups' = [lookups EXCEPT ![w] = DictSet(@, KeyFreq, Failed)]
        /\ pc' = [pc EXCEPT ![w] = LookupRaised("high_stakes")]
        /\ UNCHANGED d1
  /\ UNCHANGED << input1, memory, heap, frame, outbound, snapshot, log,
                  dispatched, calls, route, body, http >>
  /\ UNCHANGED jobvars

\* The statement after the second try: return jsonify(d1) in insights,
\* line 113 in chat_user.
AfterLookups(w) == IF route[w] = "insights" THEN "jsonify" ELSE "chat"

\* Lines 89-93 and 107-111: the high-stakes lookup inside try/except.
LookupHighStakes(w) ==
  /\ w \in Workers
  /\ pc[w] = "high_stakes"
  /\ \/ \E rows \in StakesData :
          /\ d1' = [d1 EXCEPT ![w] = DictSet(@, KeyStakes, rows)]
          /\ lookups' = [lookups EXCEPT ![w] = DictSet(@, KeyStakes, rows)]
          /\ pc' = [pc EXCEPT ![w] = AfterLookups(w)]
     \/ /\ lookups' = [lookups EXCEPT ![w] = DictSet(@, KeyStakes, Failed)]
        /\ pc' = [pc EXCEPT ![w] = LookupRaised(AfterLookups(w))]
        /\ UNCHANGED d1
  /\ UNCHANGED << input1, memory, heap, frame, outbound, snapshot, log,
                  dispatched, calls, route, body, http >>
  /\ UNCHANGED jobvars

\* Line 95: return jsonify(d1).
InsightsReturn(w) ==
  /\ w \in Workers
  /\ pc[w] = "jsonify"
  /\ http' = [http EXCEPT ![w] = [status |-> 200, payload |-> d1[w]]]
  /\ pc' = [pc EXCEPT ![w] = "idle"]
  /\ UNCHANGED << input1, memory, heap, frame, outbound, snapshot, log,
                  dispatched, calls, route, body, d1, lookups >>
  /\ UNCHANGED jobvars

\* Lines 113-116 and 14-40: a new ConversationBufferMemory, the user input
\* built from the body and d1, and the entry of call_llm. A body without
\* 'content' raises at line 115 and the request ends with status 500.
ChatCall(w) ==
  /\ w \in Workers
  /\ pc[w] = "chat"
  /\ IF "content" \in DOMAIN body[w]
       THEN /\ heap' = heap @@ (NewObj(heap) :> << >>)
            /\ memory' = [memory EXCEPT ![w] = NewObj(heap)]
            /\ frame' = [frame EXCEPT ![w] =
                           NewFrame(ChatUserInput(body[w], d1[w]), NewObj(heap))]
            /\ snapshot' = [snapshot EXCEPT ![w] = << >>]
            /\ pc' = [pc EXCEPT ![w] = "predict"]
            /\ UNCHANGED http
       ELSE /\ heap' = heap
            /\ http' = [http EXCEPT ![w] = [status |-> 500, payload |-> None]]
            /\ pc' = [pc EXCEPT ![w] = "idle"]
            /\ UNCHANGED << memory, frame, snapshot >>
  /\ UNCHANGED << input1, outbound, log, dispatched, calls, route, body, d1,
                  lookups >>
  /\ UNCHANGED jobvars

\* Lines 116-117: response, memory = call_llm(...); return response. The
\* memory object dies with the handler's locals.
ChatReturn(w) ==
  /\ w \in Workers
  /\ pc[w] = "returned"
  /\ http' = [http EXCEPT ![w] = [status |-> 200, payload |-> frame[w].response]]
  /\ heap' = Release(heap, frame[w].memory)
  /\ memory' = [memory EXCEPT ![w] = 0]
  /\ frame' = [frame EXCEPT ![w] = NewFrame(None, 0)]
  /\ pc' = [pc EXCEPT ![w] = "idle"]
  /\ UNCHANGED << input1, outbound, snapshot, log, dispatched, calls, route,
                  body, d1, lookups >>
  /\ UNCHANGED jobvars

\* An exception left the handler: the server answers 500 and the handler's
\* locals die.
WebError(w) ==
  /\ w \in Workers
  /\ pc[w] = "raised"
  /\ http' = [http EXCEPT ![w] = [status |-> 500, payload |-> None]]
  /\ heap' = Release(heap, memory[w])
  /\ memory' = [memory EXCEPT ![w] = 0]
  /\ frame' = [frame EXCEPT ![w] = NewFrame(None, 0)]
  /\ pc' = [pc EXCEPT ![w] = "idle"]
  /\ UNCHANGED << input1, outbound, snapshot, log, dispatched, calls, route,
                  body, d1, lookups >>
  /\ UNCHANGED jobvars

(* ---------------- make_predictions (not_main.py, 39-71) ----------------- *)

\* Longest list a JSON body holds.
MaxRows == 2

\* The elements a JSON list may hold: dictionaries (their pairs in order) and
\* a value that is no dictionary.
Dict(pairs) == [kind |-> "dict", pairs |-> pairs]

Scalar == [kind |-> "scalar", pairs |-> << >>]

Items ==
  { Dict(<< <<"a", "1">>, <<"b", "2">> >>),
    Dict(<< <<"a", "3">> >>),
    Dict(<< <<"a", "1">>, <<"c", "9">> >>),
    Scalar }

JsonList(items) == [kind |-> "list", items |-> items]

JsonObject == [kind |-> "object", items |-> << >>]

\* The JSON bodies of a POST to /predict/single.
JsonBodies ==
  {JsonObject} \cup { JsonList(l) : l \in UNION { [1..n -> Items] : n \in 0..MaxRows } }

\* Line 44: isinstance(data, list) and len(data) > 0.
IsNonEmptyList(j) == j.kind = "list" /\ Len(j.items) > 0

\* data[0].keys(): the keys of a dictionary, in order.
Keys(item) == [i \in 1..Len(item.pairs) |-> item.pairs[i][1]]

KeySet(item) == { item.pairs[i][1] : i \in 1..Len(item.pairs) }

\* rowdict.get(key, restval) with restval = "".
ValueOf(item, k) ==
  IF k \in KeySet(item)
    THEN item.pairs[CHOOSE i \in 1..Len(item.pairs) : item.pairs[i][1] = k][2]
    ELSE ""

\* DictWriter._dict_to_list raises for a row that is no dictionary and, with
\* extrasaction = 'raise', for a dictionary with a key outside fieldnames.
RowRaises(fieldnames, item) ==
  \/ item.kind # "dict"
  \/ \E k \in KeySet(item) : k \notin { fieldnames[i] : i \in 1..Len(fieldnames) }

\* The row DictWriter writes for a dictionary: one value per field name.
Row(fieldnames, item) ==
  [i \in 1..Len(fieldnames) |-> ValueOf(item, fieldnames[i])]

\* Line 45 raises when the first element has no keys(); writerows raises at
\* the first row it cannot convert.
WriteRaises(j) ==
  \/ j.items[1].kind # "dict"
  \/ \E i \in 1..Len(j.items) : RowRaises(Keys(j.items[1]), j.items[i])

\* The rows written before writerows stops: all of them, or those before the
\* first one that raises.
RowsWritten(j) ==
  LET fn == Keys(j.items[1])
      bad == { i \in 1..Len(j.items) : RowRaises(fn, j.items[i]) }
      n == IF bad = {} THEN Len(j.items)
           ELSE (CHOOSE i \in bad : \A k \in bad : i <= k) - 1
  IN [i \in 1..n |-> Row(fn, j.items[i])]

\* Lines 45-47: the file after the with block for a non-empty list: nothing
\* when line 45 raised, else the header and the rows written.
Written(j) ==
  IF j.items[1].kind # "dict" THEN << >>
  ELSE << Keys(j.items[1]) >> \o RowsWritten(j)

\* Line 41: a request arrives with a JSON body.
MpRequest ==
  /\ mp_pc = "idle"
  /\ calls < MaxCalls
  /\ calls' = calls + 1
  /\ \E j \in JsonBodies : data' = j
  /\ steps' = << >>
  /\ mp_pc' = "open"
  /\ UNCHANGED << local_input, google_input, jobs >>
  /\ UNCHANGED << chatvars, scriptvars >>

\* Line 43: open(LOCAL_INPUT, 'w') truncates the file.
MpOpen ==
  /\ mp_pc = "open"
  /\ local_input' = << >>
  /\ steps' = Append(steps, "truncate")
  /\ mp_pc' = "write"
  /\ UNCHANGED << calls, data, google_input, jobs >>
  /\ UNCHANGED << chatvars, scriptvars >>

\* Lines 44-52: the body of the with block, then aiplatform.init. An
\* exception of the conversion closes the file and leaves the handler.
MpWrite ==
  /\ mp_pc = "write"
  /\ IF IsNonEmptyList(data)
       THEN /\ local_input' = Written(data)
            /\ steps' = Append(steps, "write")
            /\ mp_pc' = IF WriteRaises(data) THEN "raised" ELSE "upload"
       ELSE /\ mp_pc' = "upload"
            /\ UNCHANGED << local_input, steps >>
  /\ UNCHANGED << calls, data, google_input, jobs >>
  /\ UNCHANGED << chatvars, scriptvars >>

\* Line 56: os.system("gsutil cp ..."); its exit status is not looked at.
MpUpload ==
  /\ mp_pc = "upload"
  /\ \/ google_input' = local_input
     \/ UNCHANGED google_input
  /\ steps' = Append(steps, "upload")
  /\ mp_pc' = "submit"
  /\ UNCHANGED << calls, data, local_input, jobs >>
  /\ UNCHANGED << chatvars, scriptvars >>

\* Lines 59-64: os.system("curl ... batchPredictionJobs"); its exit status is
\* not looked at.
MpSubmit ==
  /\ mp_pc = "submit"
  /\ \/ jobs' = jobs + 1
     \/ UNCHANGED jobs
  /\ steps' = Append(steps, "submit")
  /\ mp_pc' = "sleep"
  /\ UNCHANGED << calls, data, local_input, google_input >>
  /\ UNCHANGED << chatvars, scriptvars >>

\* Line 67: time.sleep(2000); the handler then ends without a return value.
MpSleep ==
  /\ mp_pc = "sleep"
  /\ steps' = Append(steps, "wait")
  /\ mp_pc' = "idle"
  /\ UNCHANGED << calls, data, local_input, google_input, jobs >>
  /\ UNCHANGED << chatvars, scriptvars >>

\* The exception of the conversion reaches the server: the request is over.
MpRaised ==
  /\ mp_pc = "raised"
  /\ steps' = Append(steps, "error")
  /\ mp_pc' = "idle"
  /\ UNCHANGED << calls, data, local_input, google_input, jobs >>
  /\ UNCHANGED << chatvars, scriptvars >>

\* No request in progress, nothing written or uploaded yet.
PredictIdle ==
  /\ mp_pc = "idle"
  /\ data = JsonObject
  /\ local_input = << >>
  /\ google_input = << >>
  /\ jobs = 0
  /\ steps = << >>

(* ------------------------ scripts/preprocess.py ------------------------ *)

\* File names as << stem, extension >>.
FileNames == { <<"a", "csv">>, <<"b", "csv">>, <<"notes", "txt">>, <<"c", "CSV">> }

\* The listings of a folder: some of the names, each once, in any order.
Listings ==
  { l \in UNION { [1..n -> FileNames] : n \in 0..Cardinality(FileNames) } :
      \A i, j \in 1..Len(l) : i # j => l[i] # l[j] }

\* The prefixes passed: the default "" and the script's 'data/' (line 148).
Prefixes == { << >>, <<"data", "/">> }

BucketName == "bucket"

\* Path.glob("*.csv"): the names that end in .csv, in directory order.
IsCsv(name) == name[2] = "csv"

Glob(listing) == SelectSeq(listing, IsCsv)

\* gcs_folder_prefix.rstrip('/').
RStrip(prefix) ==
  LET keep == { n \in 0..Len(prefix) : \A i \in (n + 1)..Len(prefix) : prefix[i] = "/" }
  IN SubSeq(prefix, 1, CHOOSE n \in keep : \A k \in keep : n <= k)

\* Lines 123-126: the blob name of a file.
BlobName(prefix, name) ==
  IF prefix # << >> THEN RStrip(prefix) \o <<"/">> \o << name[1], ".", name[2] >>
  ELSE << name[1], ".", name[2] >>

\* Line 132: f"gs://{bucket_name}/{blob_name}".
GcsUri(prefix, name) == << "gs://", BucketName, "/" >> \o BlobName(prefix, name)

\* Lines 136-137: a failed upload is printed; the list is left as it is.
OnUploadErrorAppends(files, uri) == Append(files, uri)

OnUploadError(files, uri) == files

\* Line 25: storage.Client(project=project_id), before the try; without
\* credentials it raises and the exception leaves the function.
CbClient ==
  /\ sc_pc = "cb_client"
  /\ \/ sc_pc' = "cb_reload" /\ UNCHANGED cb_result
     \/ sc_pc' = "dead" /\ cb_result' = "raised"
  /\ UNCHANGED << bucket_exists, blobs, folder, gcs_folder_prefix, csv_files,
                  idx, uploaded_files, um_result, existed, cb_steps, attempts >>
  /\ UNCHANGED << chatvars, calls, predictvars >>

\* Lines 27-32: bucket.reload() succeeds only on a bucket that exists, and
\* may raise on one that does (no access, no connection).
CbReload ==
  /\ sc_pc = "cb_reload"
  /\ \/ /\ bucket_exists
        /\ cb_steps' = Append(cb_steps, "reload_ok")
        /\ cb_result' = "True"
        /\ sc_pc' = "um_client"
     \/ /\ cb_steps' = Append(cb_steps, "reload_raised")
        /\ sc_pc' = "cb_create"
        /\ UNCHANGED cb_result
  /\ UNCHANGED << bucket_exists, blobs, folder, gcs_folder_prefix, csv_files,
                  idx, uploaded_files, um_result, existed, attempts >>
  /\ UNCHANGED << chatvars, calls, predictvars >>

\* Lines 34-43: client.create_bucket succeeds only when no bucket of the name
\* exists, and may raise then too; any exception gives False.
CbCreate ==
  /\ sc_pc = "cb_create"
  /\ \/ /\ ~bucket_exists
        /\ bucket_exists' = TRUE
        /\ cb_steps' = Append(cb_steps, "create_ok")
        /\ cb_result' = "True"
     \/ /\ cb_steps' = Append(cb_steps, "create_raised")
        /\ cb_result' = "False"
        /\ UNCHANGED bucket_exists
  /\ sc_pc' = "um_client"
  /\ UNCHANGED << blobs, folder, gcs_folder_prefix, csv_files, idx,
                  uploaded_files, um_result, existed, attempts >>
  /\ UNCHANGED << chatvars, calls, predictvars >>

\* Lines 108-119: the client (it may raise, as at line 25), the empty list,
\* the glob, and the early return when no CSV file was found.
UmStart ==
  /\ sc_pc = "um_client"
  /\ \/ /\ uploaded_files' = << >>
        /\ csv_files' = Glob(folder)
        /\ idx' = 1
        /\ IF Glob(folder) = << >>
             THEN sc_pc' = "done" /\ um_result' = "returned"
             ELSE sc_pc' = "um_loop" /\ UNCHANGED um_result
     \/ /\ sc_pc' = "dead"
        /\ um_result' = "raised"
        /\ UNCHANGED << uploaded_files, csv_files, idx >>
  /\ UNCHANGED << bucket_exists, blobs, cb_result, folder, gcs_folder_prefix,
                  existed, cb_steps, attempts >>
  /\ UNCHANGED << chatvars, calls, predictvars >>

\* Lines 121-137: one pass of the loop. The upload succeeds only into a
\* bucket that exists, and may raise then too.
UmUpload ==
  /\ sc_pc = "um_loop"
  /\ idx <= Len(csv_files)
  /\ LET csv_file == csv_files[idx]
         gcs_uri == GcsUri(gcs_folder_prefix, csv_file)
     IN \/ /\ bucket_exists
           /\ blobs' = blobs \cup { BlobName(gcs_folder_prefix, csv_file) }
           /\ uploaded_files' = Append(uploaded_files, gcs_uri)
           /\ attempts' = Append(attempts, << csv_file, TRUE >>)
        \/ /\ uploaded_files' = OnUploadError(uploaded_files, gcs_uri)
           /\ attempts' = Append(attempts, << csv_file, FALSE >>)
           /\ UNCHANGED blobs
  /\ idx' = idx + 1
  /\ UNCHANGED << sc_pc, bucket_exists, cb_result, folder, gcs_folder_prefix,
                  csv_files, um_result, existed, cb_steps >>
  /\ UNCHANGED << chatvars, calls, predictvars >>

\* Line 139: return uploaded_files.
UmReturn ==
  /\ sc_pc = "um_loop"
  /\ idx > Len(csv_files)
  /\ um_result' = "returned"
  /\ sc_pc' = "done"
  /\ UNCHANGED << bucket_exists, blobs, cb_result, folder, gcs_folder_prefix,
                  csv_files, idx, uploaded_files, existed, cb_steps, attempts >>
  /\ UNCHANGED << chatvars, calls, predictvars >>

\* The script is not running.
ScriptIdle ==
  /\ sc_pc = "off"
  /\ bucket_exists = FALSE
  /\ blobs = {}
  /\ cb_result = "none"
  /\ folder = << >>
  /\ gcs_folder_prefix = << >>
  /\ csv_files = << >>
  /\ idx = 1
  /\ uploaded_files = << >>
  /\ um_result = "none"
  /\ existed = FALSE
  /\ cb_steps = << >>
  /\ attempts = << >>

JobsIdle == PredictIdle /\ ScriptIdle

(* --------------------------- specifications ---------------------------- *)

\* Line 53: each session starts with a fresh, empty memory object. The web
\* workers take no step under Spec.
Init ==
  /\ pc = [p \in Procs |-> IF p \in Clis THEN "input" ELSE "idle"]
  /\ input1 = [p \in Procs |-> None]
  /\ memory = [p \in Procs |-> IF p \in Clis THEN p ELSE 0]
  /\ heap = [o \in Clis |-> << >>]
  /\ frame = [p \in Procs |-> NewFrame(None, IF p \in Clis THEN p ELSE 0)]
  /\ outbound = [p \in Procs |-> << >>]
  /\ snapshot = [p \in Procs |-> << >>]
  /\ log = [p \in Procs |-> << >>]
  /\ dispatched = [p \in Procs |-> 0]
  /\ calls = 0
  /\ route = [p \in Procs |-> "none"]
  /\ body = [p \in Procs |-> EmptyDict]
  /\ d1 = [p \in Procs |-> EmptyDict]
  /\ lookups = [p \in Procs |-> EmptyDict]
  /\ http = [p \in Procs |-> NoResponse]
  /\ JobsIdle

Next ==
  \E p \in Clis :
    \/ CliInput(p)
    \/ Dispatch(p)
    \/ Reply(p)
    \/ DispatchFail(p)
    \/ Save(p)
    \/ CliReturn(p)

Spec == Init /\ [][Next]_vars

\* The messages a memory handed to call_llm may hold: human and AI turns.
StoredMessages(p) ==
  { HumanMessage(c, p) : c \in CliTexts } \cup { AIMessage(r, p) : r \in Replies }

\* The histories of at most MaxHist messages.
Histories(p) ==
  UNION { [1..n -> StoredMessages(p)] : n \in 0..MaxHist }

\* One call of call_llm by session 1 on a memory of any content: the caller
\* built the memory before the loop; session 2 is not running.
InitCall ==
  /\ pc = [p \in Procs |-> IF p = 1 THEN "input" ELSE IF p \in Clis THEN "done" ELSE "idle"]
  /\ input1 = [p \in Procs |-> None]
  /\ memory = [p \in Procs |-> IF p \in Clis THEN p ELSE 0]
  /\ \E h \in Histories(1) : heap = [o \in Clis |-> IF o = 1 THEN h ELSE << >>]
  /\ frame = [p \in Procs |-> NewFrame(None, IF p \in Clis THEN p ELSE 0)]
  /\ outbound = [p \in Procs |-> << >>]
  /\ snapshot = [p \in Procs |-> << >>]
  /\ log = [p \in Procs |-> << >>]
  /\ dispatched = [p \in Procs |-> 0]
  /\ calls = MaxCalls - 1
  /\ route = [p \in Procs |-> "none"]
  /\ body = [p \in Procs |-> EmptyDict]
  /\ d1 = [p \in Procs |-> EmptyDict]
  /\ lookups = [p \in Procs |-> EmptyDict]
  /\ http = [p \in Procs |-> NoResponse]
  /\ JobsIdle

SpecCall == InitCall /\ [][Next]_vars

\* The web server: no request in progress, no memory object alive. The CLI
\* sessions are not running.
InitWeb ==
  /\ pc = [p \in Procs |-> IF p \in Clis THEN "done" ELSE "idle"]
  /\ input1 = [p \in Procs |-> None]
  /\ memory = [p \in Procs |-> 0]
  /\ heap = EmptyDict
  /\ frame = [p \in Procs |-> NewFrame(None, 0)]
  /\ outbound = [p \in Procs |-> << >>]
  /\ snapshot = [p \in Procs |-> << >>]
  /\ log = [p \in Procs |-> << >>]
  /\ dispatched = [p \in Procs |-> 0]
  /\ calls = 0
  /\ route = [p \in Procs |-> "none"]
  /\ body = [p \in Procs |-> EmptyDict]
  /\ d1 = [p \in Procs |-> EmptyDict]
  /\ lookups = [p \in Procs |-> EmptyDict]
  /\ http = [p \in Procs |-> NoResponse]
  /\ JobsIdle

NextWeb ==
  \E w \in Workers :
    \/ WebRequest(w)
    \/ LookupHighFreq(w)
    \/ LookupHighStakes(w)
    \/ InsightsReturn(w)
    \/ ChatCall(w)
    \/ Dispatch(w)
    \/ Reply(w)
    \/ DispatchFail(w)
    \/ Save(w)
    \/ ChatReturn(w)
    \/ WebError(w)

SpecWeb == InitWeb /\ [][NextWeb]_vars

NextPredict ==
  \/ MpRequest
  \/ MpOpen
  \/ MpWrite
  \/ MpUpload
  \/ MpSubmit
  \/ MpSleep
  \/ MpRaised

\* The web server with no chat request: only make_predictions runs.
SpecPredict == InitWeb /\ [][NextPredict]_vars

\* Lines 141-163 of preprocess.py: the script starts on some folder, with
\* the bucket there or not; the chat flow and the web server are not running.
InitScript ==
  /\ pc = [p \in Procs |-> IF p \in Clis THEN "done" ELSE "idle"]
  /\ input1 = [p \in Procs |-> None]
  /\ memory = [p \in Procs |-> 0]
  /\ heap = EmptyDict
  /\ frame = [p \in Procs |-> NewFrame(None, 0)]
  /\ outbound = [p \in Procs |-> << >>]
  /\ snapshot = [p \in Procs |-> << >>]
  /\ log = [p \in Procs |-> << >>]
  /\ dispatched = [p \in Procs |-> 0]
  /\ calls = 0
  /\ route = [p \in Procs |-> "none"]
  /\ body = [p \in Procs |-> EmptyDict]
  /\ d1 = [p \in Procs |-> EmptyDict]
  /\ lookups = [p \in Procs |-> EmptyDict]
  /\ http = [p \in Procs |-> NoResponse]
  /\ PredictIdle
  /\ sc_pc = "cb_client"
  /\ bucket_exists \in BOOLEAN
  /\ existed = bucket_exists
  /\ blobs = {}
  /\ cb_result = "none"
  /\ folder \in Listings
  /\ gcs_folder_prefix \in Prefixes
  /\ csv_files = << >>
  /\ idx = 1
  /\ uploaded_files = << >>
  /\ um_result = "none"
  /\ cb_steps = << >>
  /\ attempts = << >>

NextScript ==
  \/ CbClient
  \/ CbReload
  \/ CbCreate
  \/ UmStart
  \/ UmUpload
  \/ UmReturn

SpecScript == InitScript /\ [][NextScript]_vars

(* ------------------------------- claims -------------------------------- *)

\* A call of call_llm that returned normally / whose dispatch raised.
Returned(p) == pc[p] = "returned"

Raised(p) == pc[p] = "raised"

\* The memory object the caller passed to the call in progress.
Passed(p) == heap[memory[p]]

IsPrefix(s, t) == Len(s) <= Len(t) /\ SubSeq(t, 1, Len(s)) = s

\* C1: a successful call with a non-empty utterance leaves a history of
\* len(history) + 2 entries: the input history, then (user, utterance), then
\* (assistant, reply).
C1_OneExchangePerCall ==
  \A p \in Clis :
    (Returned(p) /\ frame[p].user_input # << >>) =>
      /\ Len(Passed(p)) = Len(snapshot[p]) + 2
      /\ Passed(p) = snapshot[p] \o << HumanMessage(frame[p].user_input, p),
                                       AIMessage(frame[p].response, p) >>

C3_FailedCallLeavesHistory ==
  \A p \in Clis :
    /\ pc[p] \in {"predict", "await", "raised"} =>
         /\ Passed(p) = snapshot[p]
         /\ frame[p].response = None

C3_Witness ==
  \E p \in Clis : Raised(p) /\ snapshot[p] # << >> /\ dispatched[p] = 1

\* C4: a call with an empty utterance is rejected before anything is
\* dispatched: it never dispatches, never returns a reply, and leaves the
\* history unchanged.
C4_EmptyUtteranceRejected ==
  \A p \in Clis :
    (pc[p] \in {"predict", "await", "save", "returned", "raised"}
       /\ frame[p].user_input = << >>) =>
      /\ dispatched[p] = 0
      /\ ~Returned(p)
      /\ Passed(p) = snapshot[p]

\* C5: the sequence dispatched is one system message, the entries of the
\* history in their stored order, and one user message with the utterance:
\* len(history) + 2 entries, 2 for the empty history and 4 for a history of one
\* exchange.
C5_OutboundSequence ==
  \A p \in Clis :
    pc[p] \in {"await", "save", "returned", "raised"} =>
      LET out == outbound[p]
          n == Len(snapshot[p])
      IN /\ Len(out) = n + 2
         /\ out[1].type = "system" /\ out[1].content = SystemText
         /\ \A i \in 1..n : out[i + 1] = snapshot[p][i]
         /\ out[n + 2].type = "human"
         /\ out[n + 2].content = frame[p].user_input
         /\ (snapshot[p] = << >>) => Len(out) = 2
         /\ (n = 2) => Len(out) = 4

C5_Witness ==
  \E p \in Clis :
    /\ pc[p] = "await"
    /\ Len(snapshot[p]) = 2
    /\ snapshot[p][1].type = "human" /\ snapshot[p][2].type = "ai"
    /\ Len(outbound[p]) = 4
    /\ outbound[p][4].content = <<"b">>

\* C6: no memory ever holds a message of the system role; every sequence
\* dispatched starts with the same fixed system message and holds no other.
C6_NoSystemInHistory ==
  /\ \A o \in DOMAIN heap :
       \A i \in 1..Len(heap[o]) : heap[o][i].type # "system"
  /\ \A p \in Clis :
       outbound[p] # << >> =>
         /\ outbound[p][1] = SystemMessage
         /\ \A i \in 2..Len(outbound[p]) : outbound[p][i].type # "system"

C6_Witness ==
  \E p \in Clis :
    /\ Len(log[p]) = 2
    /\ Len(outbound[p]) > 2
    /\ Len(Passed(p)) > 4

\* The history that holds each turn of a log once, in order.
TurnsOf(lg, p) ==
  [i \in 1..(2 * Len(lg)) |->
     IF i % 2 = 1 THEN HumanMessage(lg[(i + 1) \div 2][1], p)
                  ELSE AIMessage(lg[i \div 2][2], p)]

\* C7: in a session that starts with an empty memory, the history between
\* turns is the completed turns in the order they were entered, each once.
C7_EachTurnOnceInOrder ==
  \A p \in Clis :
    pc[p] \in {"input", "done"} => Passed(p) = TurnsOf(log[p], p)

\* C8: a call dispatches at most once; a dispatch that failed ends the call
\* with that one dispatch made.
C8_AtMostOneDispatch ==
  \A p \in Clis :
    /\ dispatched[p] <= 1
    /\ Raised(p) => dispatched[p] = 1
    /\ pc[p] \in {"await", "save", "returned"} => dispatched[p] = 1

C8_Witness ==
  \E p \in Clis : Raised(p) /\ dispatched[p] = 1 /\ outbound[p] # << >>

\* C9: with every session on its own memory object, the history and the
\* sequence dispatched of a session hold only messages of that session's own
\* calls (and the system message), whatever the interleaving.
C9_SessionsIsolated ==
  \A p \in Procs :
    /\ \A q \in Procs \ {p} :
         (memory[p] \in DOMAIN heap /\ memory[q] \in DOMAIN heap) =>
           memory[p] # memory[q]
    /\ memory[p] \in DOMAIN heap =>
         \A i \in 1..Len(Passed(p)) : Passed(p)[i].sid = p
    /\ \A i \in 1..Len(outbound[p]) : outbound[p][i].sid \in {0, p}

C9_Witness ==
  /\ pc[1] = "save"
  /\ pc[2] = "await"
  /\ Len(log[1]) = 1
  /\ Len(outbound[1]) = 6
  /\ Len(outbound[2]) = 2

\* C10: in both handlers each lookup is attempted whatever the other did, d1
\* holds a key exactly when its lookup succeeded (with the rows it returned),
\* and a lookup that raised fails nothing: insights answers 200 with d1, and
\* chat_user reaches call_llm unless the body has no content.
AllKeys == {KeyFreq, KeyStakes}

C10_LookupsBestEffort ==
  \A w \in Workers :
    /\ DOMAIN d1[w] = {k \in DOMAIN lookups[w] : lookups[w][k] # Failed}
    /\ \A k \in DOMAIN d1[w] : d1[w][k] = lookups[w][k]
    /\ pc[w] \in {"high_stakes"} => DOMAIN lookups[w] = {KeyFreq}
    /\ pc[w] \in {"jsonify", "chat", "predict", "await", "save", "returned", "raised"}
         => DOMAIN lookups[w] = AllKeys
    /\ pc[w] = "jsonify" => route[w] = "insights"
    /\ pc[w] = "raised" => (route[w] = "chat_user" /\ dispatched[w] = 1)
    /\ (http[w].status # 0 /\ route[w] = "insights") =>
         (http[w].status = 200 /\ http[w].payload = d1[w])
    /\ (http[w].status = 500) =>
         ("content" \notin DOMAIN body[w] \/ dispatched[w] = 1)

C10_Witness ==
  \E w \in Workers :
    /\ pc[w] = "await"
    /\ DOMAIN lookups[w] = AllKeys
    /\ lookups[w][KeyFreq] = Failed
    /\ DOMAIN d1[w] = {KeyStakes}

\* The positions of chat_user at which its memory object is alive.
InCall == {"predict", "await", "save", "returned", "raised"}

\* C11: every chat_user request enters call_llm with a memory object of its
\* own that is empty, whatever requests came before or run beside it; what it
\* dispatches is exactly the system message and the one user message of this
\* request; and the memory object is gone once the request has ended.
C11_FreshHistoryPerRequest ==
  /\ \A w \in Workers :
       /\ pc[w] = "predict" => (frame[w].memory = memory[w] /\ Passed(w) = << >>)
       /\ outbound[w] # << >> =>
            /\ Len(outbound[w]) = 2
            /\ outbound[w][1] = SystemMessage
            /\ outbound[w][2] = HumanMessage(ChatUserInput(body[w], d1[w]), w)
       /\ pc[w] \in InCall <=> memory[w] \in DOMAIN heap
       /\ pc[w] \notin InCall => memory[w] = 0
       /\ \A v \in Workers \ {w} :
            (pc[w] \in InCall /\ pc[v] \in InCall) => memory[w] # memory[v]
  /\ DOMAIN heap = { memory[w] : w \in Workers } \ {0}

C11_Witness ==
  \E w \in Workers, v \in Workers :
    /\ w # v
    /\ pc[v] = "idle" /\ route[v] = "chat_user" /\ http[v].status = 200
    /\ log[v] # << >>
    /\ pc[w] = "await"
    /\ Len(outbound[w]) = 2
    /\ calls >= 2

\* A request of make_predictions got past the with block, or has ended.
PastWrite ==
  \/ mp_pc \in {"upload", "submit", "sleep", "raised"}
  \/ mp_pc = "idle" /\ steps # << >>

\* C12: the file is truncated first; past the with block it holds the header
\* of the first record's keys and one row per record exactly when the body is
\* a non-empty list, and nothing otherwise; in both cases the request goes on
\* to the upload, the submission and the wait, in that order.
C12_CsvThenUploadSubmitWait ==
  /\ mp_pc = "write" => (local_input = << >> /\ steps = << "truncate" >>)
  /\ PastWrite =>
       IF IsNonEmptyList(data)
         THEN /\ Len(local_input) = 1 + Len(data.items)
              /\ local_input[1] = Keys(data.items[1])
         ELSE local_input = << >>
  /\ mp_pc # "raised"
  /\ (mp_pc = "idle" /\ steps # << >>) =>
       \/ steps = << "truncate", "write", "upload", "submit", "wait" >>
       \/ steps = << "truncate", "upload", "submit", "wait" >>

\* The position of a name in the folder's listing.
PositionIn(listing, name) == CHOOSE i \in 1..Len(listing) : listing[i] = name

\* The attempts that succeeded, in order.
Succeeded == SelectSeq(attempts, LAMBDA a : a[2])

\* C13: when upload_multiple_csvs_to_gcs returns, every CSV file of the folder
\* was tried once, in directory order, and nothing else was; the list returned
\* holds the URIs of the files whose upload succeeded, in that order, whatever
\* failed before or after them; with no CSV file nothing is tried and the list
\* is empty.
C13_ReturnsSucceededUploads ==
  um_result = "returned" =>
    /\ \A i \in 1..Len(attempts) :
         /\ attempts[i][1][2] = "csv"
         /\ \E k \in 1..Len(folder) : folder[k] = attempts[i][1]
    /\ \A k \in 1..Len(folder) :
         folder[k][2] = "csv" =>
           Cardinality({ i \in 1..Len(attempts) : attempts[i][1] = folder[k] }) = 1
    /\ \A i, j \in 1..Len(attempts) :
         i < j => PositionIn(folder, attempts[i][1]) < PositionIn(folder, attempts[j][1])
    /\ Len(uploaded_files) = Len(Succeeded)
    /\ \A i \in 1..Len(Succeeded) :
         uploaded_files[i] =
           << "gs://", BucketName, "/" >> \o BlobName(gcs_folder_prefix, Succeeded[i][1])
    /\ blobs = { BlobName(gcs_folder_prefix, Succeeded[i][1]) : i \in 1..Len(Succeeded) }
    /\ (\A k \in 1..Len(folder) : folder[k][2] # "csv") =>
         (attempts = << >> /\ uploaded_files = << >>)

C13_Witness ==
  /\ um_result = "returned"
  /\ Len(folder) = 3
  /\ Len(attempts) = 2
  /\ ~attempts[1][2]
  /\ attempts[2][2]
  /\ uploaded_files = << << "gs://", "bucket", "/", "data", "/", "b", ".", "csv" >> >>

\* C14: create_bucket_if_not_exists returns True exactly when the bucket
\* already existed or the call created it, and False exactly when the
\* existence check failed and the creation failed too; the creation is tried
\* only after a failed existence check; no exception leaves the function.
C14_TrueIffBucketThere ==
  /\ cb_result # "raised"
  /\ cb_result = "True" => bucket_exists
  /\ cb_result = "True" <=> (cb_result # "none" /\ (existed \/ "create_ok" \in { cb_steps[i] : i \in 1..Len(cb_steps) }))
  /\ cb_result = "False" <=> cb_steps = << "reload_raised", "create_raised" >>
  /\ \A i \in 1..Len(cb_steps) :
       cb_steps[i] \in {"create_ok", "create_raised"} =>
         (i = 2 /\ cb_steps[1] = "reload_raised")

====
